---- MODULE Spec2Model ----
(***************************************************************************)
(* Model of the perk controller, server/src/controllers/perkController.js: *)
(* the Joi create schema, the handlers getPerk, createPerk, updatePerk and *)
(* deletePerk, and the record store they call.  Each handler awaits one    *)
(* store call; a handler is one action, the store call included.           *)
(***************************************************************************)
EXTENDS Integers, Sequences, FiniteSets, TLC

VARIABLES store, nextId, pc, pre, req, resp, storeCall, storeArg, inflight

vars == <<store, nextId, pc, pre, req, resp, storeCall, storeArg, inflight>>

(***************************************************************************)
(* Bounds of the model.                                                    *)
(***************************************************************************)
\* records ever created (the store assigns ids 1..MaxPerks)
MaxPerks == 1
\* keys in one request body
MaxBodyKeys == 2

(***************************************************************************)
(* JSON values, tagged with their JavaScript type.                         *)
(***************************************************************************)
Str(x) == [t |-> "string", s |-> x, n |-> 0]
Num(k) == [t |-> "number", s |-> "", n |-> k]
Null == [t |-> "null", s |-> "", n |-> 0]
Undefined == [t |-> "undefined", s |-> "", n |-> 0]
ObjectId(i) == [t |-> "objectid", s |-> "", n |-> i]
Date(c) == [t |-> "date", s |-> "", n |-> c]

\* typeof v
TypeOf(v) == IF v.t = "null" THEN "object" ELSE v.t

\* ToBoolean(v), as used by `v && ...`
Truthy(v) ==
  CASE v.t = "string" -> v.s /= ""
    [] v.t = "number" -> v.n /= 0
    [] v.t \in {"null", "undefined"} -> FALSE
    [] OTHER -> TRUE

\* obj[k] of a plain object: undefined when the key is absent
Get(obj, k) == IF k \in DOMAIN obj THEN obj[k] ELSE Undefined

\* { ...a, ...b }
Merge(a, b) == [k \in DOMAIN a \cup DOMAIN b |-> IF k \in DOMAIN b THEN b[k] ELSE a[k]]

EmptyObject == [k \in {} |-> Null]

(***************************************************************************)
(* The schema's constants.                                                 *)
(***************************************************************************)
Categories == {"food", "tech", "travel", "fitness", "other"}
TitleMin == 2
DiscountMin == 0
DiscountMax == 100
SchemaKeys == <<"title", "description", "category", "discountPercent", "merchant">>

(***************************************************************************)
(* Request inputs.                                                         *)
(***************************************************************************)
Keys == {"title", "description", "category", "discountPercent", "merchant",
         "_id", "id", "createdAt"}

FieldValues(k) ==
  CASE k = "title" -> {Str(""), Str("a"), Str("ab"), Str("cd"), Num(7)}
    [] k = "description" -> {Str("d"), Num(7)}
    [] k = "category" -> {Str("food"), Str("invalid"), Null}
    [] k = "discountPercent" -> {Num(0), Num(50), Num(150), Str("50")}
    [] k = "merchant" -> {Str("m"), Num(7)}
    [] k = "_id" -> {Str("x")}
    [] k = "id" -> {Str("x")}
    [] k = "createdAt" -> {Num(7)}

AllValues == UNION {FieldValues(k) : k \in Keys}

BodiesOver(ks) == {b \in [ks -> AllValues] : \A k \in ks : b[k] \in FieldValues(k)}

Bodies == UNION {BodiesOver(ks) : ks \in {s \in SUBSET Keys : Cardinality(s) <= MaxBodyKeys}}

\* a request's :id; MalformedId stands for a string that is no ObjectId
MalformedId == 0
RequestIds == 0 .. MaxPerks

\* the decimal strings of the inputs and the numbers they denote
Decimal == ("50" :> 50)

(***************************************************************************)
(* Joi: perkSchema.validate(body), abortEarly (the default).               *)
(***************************************************************************)
JoiOk(v) == [error |-> "", value |-> v]
JoiErr(m) == [error |-> m, value |-> Undefined]

\* JoiTitle with the min(2) rule left out
JoiTitleNoMin(v) ==
  IF v.t = "undefined" THEN JoiErr("\"title\" is required")
  ELSE IF v.t /= "string" THEN JoiErr("\"title\" must be a string")
  ELSE IF v.s = "" THEN JoiErr("\"title\" is not allowed to be empty")
  ELSE JoiOk(v)

\* Joi.string().min(2).required()
JoiTitle(v) ==
  IF v.t = "undefined" THEN JoiErr("\"title\" is required")
  ELSE IF v.t /= "string" THEN JoiErr("\"title\" must be a string")
  ELSE IF v.s = "" THEN JoiErr("\"title\" is not allowed to be empty")
  ELSE IF Len(v.s) < TitleMin
       THEN JoiErr("\"title\" length must be at least 2 characters long")
  ELSE JoiOk(v)

\* Joi.string().allow('')
JoiOptionalString(k, v) ==
  IF v.t = "undefined" THEN JoiOk(v)
  ELSE IF v.t /= "string" THEN JoiErr("\"" \o k \o "\" must be a string")
  ELSE JoiOk(v)

\* JoiCategory with the default('other') rule left out
JoiCategoryNoDefault(v) ==
  IF v.t = "undefined" THEN JoiOk(v)
  ELSE IF v.t = "string" /\ v.s \in Categories THEN JoiOk(v)
  ELSE JoiErr("\"category\" must be one of [food, tech, travel, fitness, other]")

\* Joi.string().valid('food','tech','travel','fitness','other').default('other')
JoiCategory(v) ==
  IF v.t = "undefined" THEN JoiOk(Str("other"))
  ELSE IF v.t = "string" /\ v.s \in Categories THEN JoiOk(v)
  ELSE JoiErr("\"category\" must be one of [food, tech, travel, fitness, other]")

\* Joi.number(): a number, or (convert) a string that denotes one
JoiToNumber(v) ==
  IF v.t = "number" THEN JoiOk(v)
  ELSE IF v.t = "string" /\ v.s \in DOMAIN Decimal THEN JoiOk(Num(Decimal[v.s]))
  ELSE JoiErr("\"discountPercent\" must be a number")

\* Joi.number().min(0).max(100).default(0)
JoiDiscountPercent(v) ==
  IF v.t = "undefined" THEN JoiOk(Num(0))
  ELSE LET c == JoiToNumber(v) IN
    IF c.error /= "" THEN c
    ELSE IF c.value.n < DiscountMin
         THEN JoiErr("\"discountPercent\" must be greater than or equal to 0")
    ELSE IF c.value.n > DiscountMax
         THEN JoiErr("\"discountPercent\" must be less than or equal to 100")
    ELSE c

JoiKey(k, v) ==
  CASE k = "title" -> JoiTitle(v)
    [] k = "description" -> JoiOptionalString(k, v)
    [] k = "category" -> JoiCategory(v)
    [] k = "discountPercent" -> JoiDiscountPercent(v)
    [] k = "merchant" -> JoiOptionalString(k, v)

SchemaKeySet == {SchemaKeys[i] : i \in DOMAIN SchemaKeys}

\* the first schema key, in schema order, whose value fails; 0 when none does
FirstFailing(body) ==
  LET bad == {i \in DOMAIN SchemaKeys :
                JoiKey(SchemaKeys[i], Get(body, SchemaKeys[i])).error /= ""}
  IN IF bad = {} THEN 0 ELSE CHOOSE i \in bad : \A j \in bad : i <= j

\* perkSchema.validate(body): {value, error}
perkSchema(body) ==
  LET i == FirstFailing(body)
      unknown == DOMAIN body \ SchemaKeySet
      present == {k \in SchemaKeySet :
                    JoiKey(k, Get(body, k)).value.t /= "undefined"}
  IN IF i /= 0 THEN JoiKey(SchemaKeys[i], Get(body, SchemaKeys[i]))
     ELSE IF unknown /= {}
          THEN JoiErr("\"" \o (CHOOSE k \in unknown : TRUE) \o "\" is not allowed")
     ELSE JoiOk([k \in present |-> JoiKey(k, Get(body, k)).value])

(***************************************************************************)
(* The record store (models/Perk.js and the database behind it).           *)
(* A document is an object with keys _id, createdAt and the schema keys.   *)
(***************************************************************************)
\* the Perk model's validator of one path
SchemaValid(k, v) ==
  CASE k = "title" -> v.t = "string" /\ Len(v.s) >= TitleMin
    [] k = "description" -> v.t = "string"
    [] k = "category" -> v.t = "string" /\ v.s \in Categories
    [] k = "discountPercent" -> v.t = "number" /\ v.n >= DiscountMin /\ v.n <= DiscountMax
    [] k = "merchant" -> v.t = "string"
    [] OTHER -> TRUE

\* the Perk model's defaults
SchemaDefaults ==
  [k \in {"description", "category", "discountPercent"} |->
     CASE k = "description" -> Str("")
       [] k = "category" -> Str("other")
       [] k = "discountPercent" -> Num(0)]

\* the unique index on (title, merchant): a missing merchant is one value
SameIndexKey(d, e) ==
  Get(d, "title") = Get(e, "title") /\ Get(d, "merchant") = Get(e, "merchant")

DocsById(st, id) == {d \in st : d["_id"] = ObjectId(id)}

\* what a store call gives back: an error thrown (err /= ""), or the
\* document it resolves to (doc = {} for null), and the store afterwards
StoreThrow(st, e) == [err |-> e, doc |-> {}, store |-> st]
StoreReturn(st, ds) == [err |-> "", doc |-> ds, store |-> st]

\* Perk.create(fields), the next id and creation time being id
StoreCreate(st, id, fields) ==
  LET doc == Merge(Merge(SchemaDefaults, fields),
                   [k \in {"_id", "createdAt"} |->
                      IF k = "_id" THEN ObjectId(id) ELSE Date(id)])
  IN IF \E k \in DOMAIN doc : ~SchemaValid(k, doc[k])
       THEN StoreThrow(st, "ValidationError")
     ELSE IF "title" \notin DOMAIN doc THEN StoreThrow(st, "ValidationError")
     ELSE IF \E d \in st : SameIndexKey(d, doc) THEN StoreThrow(st, "E11000")
     ELSE StoreReturn(st \cup {doc}, {doc})

\* Perk.findById(id)
StoreFindById(st, id) ==
  IF id = MalformedId THEN StoreThrow(st, "CastError")
  ELSE StoreReturn(st, DocsById(st, id))

\* Perk.findByIdAndUpdate(id, { $set: updates }, options)
StoreFindByIdAndUpdate(st, id, updates, options) ==
  IF id = MalformedId THEN StoreThrow(st, "CastError")
  ELSE IF options.runValidators /\ \E k \in DOMAIN updates : ~SchemaValid(k, updates[k])
    THEN StoreThrow(st, "ValidationError")
  ELSE IF DocsById(st, id) = {} THEN StoreReturn(st, {})
  ELSE LET old == CHOOSE d \in DocsById(st, id) : TRUE
           new == Merge(old, updates)
       IN IF "_id" \in DOMAIN updates /\ updates["_id"] /= old["_id"]
            THEN StoreThrow(st, "ImmutableField")
          ELSE IF \E d \in st \ {old} : SameIndexKey(d, new)
            THEN StoreThrow(st, "E11000")
          ELSE StoreReturn((st \ {old}) \cup {new},
                           IF options.new THEN {new} ELSE {old})

\* Perk.findByIdAndDelete(id)
StoreFindByIdAndDelete(st, id) ==
  IF id = MalformedId THEN StoreThrow(st, "CastError")
  ELSE StoreReturn(st \ DocsById(st, id), DocsById(st, id))

(***************************************************************************)
(* Responses.                                                              *)
(***************************************************************************)
Response(status, message, errors, perk, ok) ==
  [status |-> status, message |-> message, errors |-> errors, perk |-> perk, ok |-> ok]

\* res.status(s).json({ message })
JsonMessage(status, message) == Response(status, message, <<>>, {}, FALSE)

\* res.status(s).json({ perk })
JsonPerk(status, doc) == Response(status, "", <<>>, doc, FALSE)

\* the status the error-handling middleware answers next(err) with
FallbackStatus == 500

\* next(err)
NextErr(e) == Response(FallbackStatus, e, <<>>, {}, FALSE)

\* what a handler does: the store call it made ("" for none) and what it
\* passed, the store afterwards and the response
Outcome(call, arg, st, r) == [call |-> call, arg |-> arg, store |-> st, resp |-> r]

(***************************************************************************)
(* The handlers, as functions of the store and the request.                *)
(***************************************************************************)
\* mongoose.Types.ObjectId.isValid(id)
ObjectIdIsValid(id) == id /= MalformedId

\* getPerk, after its store call has resolved to r
getPerkResponse(r) ==
  IF r.err /= "" THEN NextErr(r.err)
  ELSE IF r.doc = {} THEN JsonMessage(404, "Perk not found")
  ELSE JsonPerk(200, r.doc)

\* getPerk
getPerkOutcome(st, id) ==
  LET r == StoreFindById(st, id) IN
    Outcome("findById", EmptyObject, r.store, getPerkResponse(r))

\* createPerkResponse with the `err.code === 11000` test left out
createPerkResponseNoConflict(r) ==
  IF r.err /= "" THEN NextErr(r.err)
  ELSE JsonPerk(201, r.doc)

\* createPerk, after Perk.create has resolved to r
createPerkResponse(r) ==
  IF r.err = "E11000" THEN JsonMessage(409, "Duplicate perk for this merchant")
  ELSE IF r.err /= "" THEN NextErr(r.err)
  ELSE JsonPerk(201, r.doc)

\* createPerk
createPerkOutcome(st, id, body) ==
  LET v == perkSchema(body) IN
    IF v.error /= "" THEN Outcome("", EmptyObject, st, JsonMessage(400, v.error))
    ELSE LET r == StoreCreate(st, id, v.value) IN
      Outcome("create", v.value, r.store, createPerkResponse(r))

\* allowedUpdates with createdAt let through
allowedUpdatesWithCreatedAt ==
  {"title", "description", "category", "discountPercent", "merchant", "createdAt"}

allowedUpdates == {"title", "description", "category", "discountPercent", "merchant"}

\* isValidUpdate with `some` for `every`
isValidUpdateSome(updates) == \E key \in DOMAIN updates : key \in allowedUpdates

\* every key of the body is an allowed one
isValidUpdate(updates) == \A key \in DOMAIN updates : key \in allowedUpdates

\* `updates.k && typeof updates.k !== 'string'`
NotAString(updates, k) == Truthy(Get(updates, k)) /\ TypeOf(Get(updates, k)) /= "string"

\* `updates.category && ![...].includes(updates.category)`
BadCategory(updates) ==
  LET c == Get(updates, "category") IN Truthy(c) /\ ~(c.t = "string" /\ c.s \in Categories)

\* the discountPercent test of updatePerk
BadDiscount(updates) ==
  LET d == Get(updates, "discountPercent") IN
    d.t /= "undefined"
    /\ (TypeOf(d) /= "number" \/ d.n < DiscountMin \/ d.n > DiscountMax)

When(c, m) == IF c THEN <<m>> ELSE <<>>

\* the errors array of updatePerk, in the order it is pushed
updateErrors(updates) ==
  When(NotAString(updates, "title"), "Title must be a string")
  \o When(NotAString(updates, "description"), "Description must be a string")
  \o When(BadCategory(updates), "Category must be one of: food, tech, travel, fitness, other")
  \o When(BadDiscount(updates), "Discount percent must be a number between 0 and 100")
  \o When(NotAString(updates, "merchant"), "Merchant must be a string")

\* updateOptions with runValidators left out
updateOptionsNoValidators == [new |-> TRUE, runValidators |-> FALSE]

\* the options updatePerk gives findByIdAndUpdate
updateOptions == [new |-> TRUE, runValidators |-> TRUE]

\* updatePerk, after findByIdAndUpdate has resolved to r
updatePerkResponse(r) ==
  IF r.err /= "" THEN NextErr(r.err)
  ELSE IF r.doc = {} THEN JsonMessage(404, "Perk not found")
  ELSE JsonPerk(200, r.doc)

\* updatePerk
updatePerkOutcome(st, id, updates) ==
  IF ~ObjectIdIsValid(id)
    THEN Outcome("", EmptyObject, st, JsonMessage(400, "Invalid perk ID"))
  ELSE IF ~isValidUpdate(updates)
    THEN Outcome("", EmptyObject, st, JsonMessage(400, "Invalid fields provided for update"))
  ELSE IF Len(updateErrors(updates)) > 0
    THEN Outcome("", EmptyObject, st,
                 Response(400, "Validation errors", updateErrors(updates), {}, FALSE))
  ELSE LET r == StoreFindByIdAndUpdate(st, id, updates, updateOptions) IN
    Outcome("findByIdAndUpdate", updates, r.store, updatePerkResponse(r))

\* deletePerkResponse with the `if (!doc)` test left out
deletePerkResponseNoCheck(r) ==
  IF r.err /= "" THEN NextErr(r.err)
  ELSE Response(200, "", <<>>, {}, TRUE)

\* deletePerk, after findByIdAndDelete has resolved to r
deletePerkResponse(r) ==
  IF r.err /= "" THEN NextErr(r.err)
  ELSE IF r.doc = {} THEN JsonMessage(404, "Perk not found")
  ELSE Response(200, "", <<>>, {}, TRUE)

\* deletePerk
deletePerkOutcome(st, id) ==
  LET r == StoreFindByIdAndDelete(st, id) IN
    Outcome("findByIdAndDelete", EmptyObject, r.store, deletePerkResponse(r))

(***************************************************************************)
(* The state machine.  A handler runs from the request to the response as  *)
(* one action: it awaits a single store call and the store serialises the  *)
(* calls.  Done ends the request.                                          *)
(***************************************************************************)
Request(op, id, body) == [op |-> op, id |-> id, body |-> body]

NoRequest == Request("", 0, EmptyObject)
NoResponse == Response(0, "", <<>>, {}, FALSE)

\* the clients whose deletePerk requests overlap, and a request of theirs
Clients == {1, 2}
NotSent == [pc |-> "idle", id |-> 0, existed |-> FALSE, changed |-> FALSE,
            overlapped |-> FALSE, resp |-> NoResponse]

Init ==
  /\ store = {}
  /\ nextId = 1
  /\ pc = "idle"
  /\ pre = {}
  /\ req = NoRequest
  /\ resp = NoResponse
  /\ storeCall = ""
  /\ storeArg = EmptyObject
  /\ inflight = [c \in Clients |-> NotSent]

\* a request handled to its response: o is the handler's outcome
Handle(r, o) ==
  /\ pc = "idle"
  /\ pc' = "responded"
  /\ pre' = store
  /\ req' = r
  /\ store' = o.store
  /\ resp' = o.resp
  /\ storeCall' = o.call
  /\ storeArg' = o.arg

\* the request's inputs are drawn when it arrives
getPerk ==
  /\ pc = "idle"
  /\ \E id \in RequestIds :
       Handle(Request("getPerk", id, EmptyObject), getPerkOutcome(store, id))
  /\ UNCHANGED <<nextId, inflight>>

\* createPerk with a body of `bodies`; the store holds at most MaxPerks ids
createPerkOf(bodies) ==
  /\ pc = "idle"
  /\ \E body \in bodies :
       LET o == createPerkOutcome(store, nextId, body) IN
         /\ o.resp.status = 201 => nextId <= MaxPerks
         /\ Handle(Request("createPerk", 0, body), o)
         /\ nextId' = IF o.resp.status = 201 THEN nextId + 1 ELSE nextId
  /\ UNCHANGED inflight

createPerk == createPerkOf(Bodies)

updatePerk ==
  /\ pc = "idle"
  /\ \E id \in RequestIds, body \in Bodies :
       Handle(Request("updatePerk", id, body), updatePerkOutcome(store, id, body))
  /\ UNCHANGED <<nextId, inflight>>

deletePerk ==
  /\ pc = "idle"
  /\ \E id \in RequestIds :
       Handle(Request("deletePerk", id, EmptyObject), deletePerkOutcome(store, id))
  /\ UNCHANGED <<nextId, inflight>>

\* the response is sent and the request is over
Done ==
  /\ pc = "responded"
  /\ pc' = "idle"
  /\ pre' = store
  /\ req' = NoRequest
  /\ resp' = NoResponse
  /\ storeCall' = ""
  /\ storeArg' = EmptyObject
  /\ UNCHANGED <<store, nextId, inflight>>

Next ==
  \/ getPerk
  \/ createPerk
  \/ updatePerk
  \/ deletePerk
  \/ Done

Spec == Init /\ [][Next]_vars

(***************************************************************************)
(* Overlapping deletePerk requests: each client's handler is split at its  *)
(* await, the store call being one atomic step of the store.               *)
(***************************************************************************)
\* client c's deletePerk runs up to `await Perk.findByIdAndDelete(id)`; it
\* overlaps another client's when that one is still awaiting its own call
deletePerkCall(c, id) ==
  LET o == deletePerkOutcome(store, id) IN
    /\ pc = "idle"
    /\ inflight[c].pc = "idle"
    /\ store' = o.store
    /\ inflight' = [inflight EXCEPT ![c] =
         [pc |-> "awaiting", id |-> id,
          existed |-> \E d \in store : d["_id"] = ObjectId(id),
          changed |-> o.store /= store,
          overlapped |-> \E e \in Clients \ {c} : inflight[e].pc = "awaiting",
          resp |-> o.resp]]
    /\ UNCHANGED <<nextId, pc, pre, req, resp, storeCall, storeArg>>

\* client c's deletePerk resumes after the await and responds
deletePerkRespond(c) ==
  /\ inflight[c].pc = "awaiting"
  /\ inflight' = [inflight EXCEPT ![c].pc = "responded"]
  /\ UNCHANGED <<store, nextId, pc, pre, req, resp, storeCall, storeArg>>

\* the bodies the records of the overlapping deletes are created from
SeedBodies == BodiesOver({"title"}) \cup BodiesOver({"title", "merchant"})

createSeedPerk == createPerkOf(SeedBodies)

NextOverlap ==
  \/ createSeedPerk
  \/ Done
  \/ \E c \in Clients, id \in RequestIds : deletePerkCall(c, id)
  \/ \E c \in Clients : deletePerkRespond(c)

SpecOverlap == Init /\ [][NextOverlap]_vars

(***************************************************************************)
(* The properties.  They are stated over the request just handled (pc =    *)
(* "responded"): req, the store before (pre) and after (store), the store  *)
(* call made (storeCall, storeArg) and the response (resp).                *)
(***************************************************************************)
Responded(op) == pc = "responded" /\ req.op = op

Range(q) == {q[i] : i \in DOMAIN q}

\* the fields a client may update
EditableFields == {"title", "description", "category", "discountPercent", "merchant"}

\* the keys that name a record's identifier or creation time
ProtectedFields == {"_id", "id", "createdAt"}

\* value v of editable field k breaks the field's type, range or enum constraint
Violates(k, v) ==
  CASE k = "title" -> ~(v.t = "string" /\ Len(v.s) >= 2)
    [] k = "description" -> v.t /= "string"
    [] k = "category" -> ~(v.t = "string" /\ v.s \in {"food", "tech", "travel", "fitness", "other"})
    [] k = "discountPercent" -> ~(v.t = "number" /\ v.n >= 0 /\ v.n <= 100)
    [] k = "merchant" -> v.t /= "string"

\* the entry of updatePerk's error list that reports field k
ViolationMessage(k) ==
  CASE k = "title" -> "Title must be a string"
    [] k = "description" -> "Description must be a string"
    [] k = "category" -> "Category must be one of: food, tech, travel, fitness, other"
    [] k = "discountPercent" -> "Discount percent must be a number between 0 and 100"
    [] k = "merchant" -> "Merchant must be a string"

HasViolation(body) == \E k \in DOMAIN body \cap EditableFields : Violates(k, body[k])

Rejected400 == resp.status = 400 /\ storeCall = "" /\ store = pre

Stored(st, id) == \E d \in st : d["_id"] = ObjectId(id)

\* C1 (as claimed): an updatePerk whose body has a key outside the editable
\* fields is rejected with 400 'Invalid fields provided for update', the
\* store is not called and no record changes.
C1_AsClaimed ==
  (Responded("updatePerk") /\ ~(DOMAIN req.body \subseteq EditableFields))
    => (Rejected400 /\ resp.message = "Invalid fields provided for update")

\* C1 (amended): an updatePerk whose body has a key outside the editable
\* fields is rejected with 400, the store is not called and no record
\* changes; the message is 'Invalid fields provided for update' when the id
\* is well-formed and 'Invalid perk ID' when it is malformed.
C1_DisallowedFieldRejected ==
  (Responded("updatePerk") /\ ~(DOMAIN req.body \subseteq EditableFields))
    => (/\ Rejected400
        /\ resp.message = IF req.id = MalformedId THEN "Invalid perk ID"
                          ELSE "Invalid fields provided for update")

C1_Witness ==
  /\ Responded("updatePerk")
  /\ Stored(pre, req.id)
  /\ "createdAt" \in DOMAIN req.body
  /\ \E k \in DOMAIN req.body \cap EditableFields : ~Violates(k, req.body[k])
  /\ resp.message = "Invalid fields provided for update"

\* C2 (as claimed): for an updatePerk with a valid id and only editable keys,
\* the error list has the entry of every field present whose value breaks
\* its constraint.
C2_AsClaimed ==
  (/\ Responded("updatePerk")
   /\ req.id /= MalformedId
   /\ DOMAIN req.body \subseteq EditableFields)
    => \A k \in DOMAIN req.body :
         Violates(k, req.body[k]) => ViolationMessage(k) \in Range(resp.errors)

\* C3 (as claimed): an updatePerk with an editable field whose value breaks
\* its constraint fails with 400 and the store update is not invoked.
C3_AsClaimed ==
  (Responded("updatePerk") /\ HasViolation(req.body))
    => (resp.status = 400 /\ storeCall = "")

\* C4: a createPerk whose title is missing, empty or one character long is
\* answered 400, the store's create is not called and the records are unchanged.
C4_ShortTitleRejected ==
  (/\ Responded("createPerk")
   /\ \/ "title" \notin DOMAIN req.body
      \/ (req.body["title"].t = "string" /\ Len(req.body["title"].s) <= 1))
    => Rejected400

C4_Witness ==
  /\ Responded("createPerk")
  /\ "title" \in DOMAIN req.body
  /\ req.body["title"] = Str("a")
  /\ "merchant" \in DOMAIN req.body
  /\ req.body["merchant"] = Str("m")
  /\ resp.status = 400

\* C5: every stored record has a title of at least 2 characters, a category
\* of the enum and a discountPercent within 0..100.
C5_StoredRecordsValid ==
  \A d \in store :
    /\ d["title"].t = "string" /\ Len(d["title"].s) >= 2
    /\ d["category"].t = "string"
    /\ d["category"].s \in {"food", "tech", "travel", "fitness", "other"}
    /\ d["discountPercent"].t = "number"
    /\ d["discountPercent"].n >= 0 /\ d["discountPercent"].n <= 100

C5_Witness ==
  /\ Responded("updatePerk")
  /\ Stored(pre, req.id)
  /\ "title" \in DOMAIN req.body
  /\ req.body["title"] = Str("a")
  /\ storeCall = "findByIdAndUpdate"
  /\ resp.status /= 200
  /\ store = pre

\* C6 (as claimed): getPerk with a malformed identifier is answered 400.
C6_AsClaimed ==
  (Responded("getPerk") /\ req.id = MalformedId) => resp.status = 400

\* C8: a createPerk that passes validation is answered 409 and adds no
\* record when a stored record has its title and merchant, and 201 with one
\* record added when none has.
C8_DuplicateIsConflict ==
  (Responded("createPerk") /\ perkSchema(req.body).error = "")
    => IF \E d \in pre : /\ Get(d, "title") = Get(req.body, "title")
                        /\ Get(d, "merchant") = Get(req.body, "merchant")
         THEN resp.status = 409 /\ store = pre
         ELSE /\ resp.status = 201
              /\ pre \subseteq store
              /\ Cardinality(store) = Cardinality(pre) + 1

C8_Witness ==
  /\ Responded("createPerk")
  /\ resp.status = 409
  /\ "merchant" \in DOMAIN req.body
  /\ store = pre
  /\ store /= {}

\* C9 (as claimed): the record a validated createPerk passes to the store has
\* category 'other' and discountPercent 0 where the body omits them, and the
\* body's values where it gives them.
C9_AsClaimed ==
  (Responded("createPerk") /\ storeCall = "create")
    => /\ Get(storeArg, "category") =
            IF "category" \in DOMAIN req.body THEN req.body["category"] ELSE Str("other")
       /\ Get(storeArg, "discountPercent") =
            IF "discountPercent" \in DOMAIN req.body THEN req.body["discountPercent"]
            ELSE Num(0)

\* the number a given discountPercent denotes: itself, or the number a
\* decimal string spells
Denoted(v) == IF v.t = "string" /\ v.s = "50" THEN Num(50) ELSE v

\* C9 (amended): the record a validated createPerk passes to the store has
\* category 'other' and discountPercent 0 where the body omits them, the
\* body's category where it gives one, and the number the body's
\* discountPercent denotes where it gives one (a decimal string is passed as
\* the number it spells).
C9_DefaultsApplied ==
  (Responded("createPerk") /\ storeCall = "create")
    => /\ Get(storeArg, "category") =
            IF "category" \in DOMAIN req.body THEN req.body["category"] ELSE Str("other")
       /\ Get(storeArg, "discountPercent") =
            IF "discountPercent" \in DOMAIN req.body
              THEN Denoted(req.body["discountPercent"])
            ELSE Num(0)

C9_Witness ==
  /\ Responded("createPerk")
  /\ resp.status = 201
  /\ DOMAIN req.body = {"title", "merchant"}
  /\ \E d \in store \ pre : d["category"] = Str("other") /\ d["discountPercent"] = Num(0)

\* C10: a createPerk or updatePerk whose body names id, _id or createdAt is
\* answered 400 without a store call; a successful updatePerk leaves the
\* target's id and createdAt and every field the body does not name
\* unchanged, and the other records as they were; no request changes the
\* createdAt of a record.
C10_ProtectedFields ==
  /\ (/\ pc = "responded"
      /\ req.op \in {"createPerk", "updatePerk"}
      /\ DOMAIN req.body \cap ProtectedFields /= {})
       => Rejected400
  /\ (Responded("updatePerk") /\ resp.status = 200)
       => \E old \in pre, new \in store :
            /\ old["_id"] = ObjectId(req.id)
            /\ new["_id"] = old["_id"]
            /\ new["createdAt"] = old["createdAt"]
            /\ \A k \in (DOMAIN old \cup DOMAIN new) \ DOMAIN req.body :
                 Get(new, k) = Get(old, k)
            /\ store \ {new} = pre \ {old}
  /\ \A old \in pre, new \in store :
       new["_id"] = old["_id"] => new["createdAt"] = old["createdAt"]

C10_Witness ==
  /\ Responded("updatePerk")
  /\ resp.status = 200
  /\ DOMAIN req.body = {"title"}
  /\ \E old \in pre, new \in store :
       /\ new["_id"] = old["_id"]
       /\ new["title"] /= old["title"]
       /\ old["category"] = Str("food")
       /\ new["category"] = Str("food")

(***************************************************************************)
(* Properties of overlapping deletes (SpecOverlap).                        *)
(***************************************************************************)
Answered(c) == inflight[c].pc = "responded"

\* of two answered deletes of one identifier that matched a record when one
\* of them was called, exactly one is answered {ok: true} and the other
\* 404, and the record is gone
OneDeleteSucceeds ==
  \A c \in Clients, e \in Clients :
    (/\ c /= e
     /\ Answered(c) /\ Answered(e)
     /\ inflight[c].id = inflight[e].id
     /\ inflight[c].existed)
      => /\ inflight[c].resp.status = 200 /\ inflight[c].resp.ok
         /\ inflight[e].resp.status = 404
         /\ ~Stored(store, inflight[c].id)

====
